---- MODULE Spec2Model ----
(***************************************************************************)
(* A model of type.go of the "config" package: the unfolding of            *)
(* %(name)s and ${name} references in option values (computeVar, String)   *)
(* and the reflective population of a tagged record (ParseConf).           *)
(*                                                                         *)
(* Go strings are modelled as sequences of one-character strings, so that  *)
(* matching, slicing and splicing are done as the code does them.  Offsets *)
(* are 0-based as in Go; Slice(s, lo, hi) is s[lo:hi].                     *)
(***************************************************************************)
EXTENDS Integers, Sequences, FiniteSets, TLC

VARIABLES
    data,       \* c.data: section -> option -> raw value
    environ,    \* the process environment read by os.Getenv
    section,    \* String's section argument
    option,     \* String's option argument
    pc,         \* position in String / computeVar
    pass,       \* which computeVar call of String is running: "var" or "env"
    value,      \* *computedVal while a pass runs, String's value afterwards
    i,          \* computeVar's loop counter
    err,        \* the error of the call
    getenvs,    \* the names os.Getenv was called with, in order
    dest,       \* the destination ParseConf is called on
    st,         \* the argument of the running ParseConf call, then loadStruct's v
    fields      \* the contents of the destination record's fields

vars == <<data, environ, section, option, pc, pass, value, i, err, getenvs, dest, st, fields>>

\* what a String call leaves alone
pvars == <<dest, st, fields>>
\* what a ParseConf call leaves alone
strvars == <<section, option, pass, value, getenvs>>

-----------------------------------------------------------------------------
(* Bounds of the model *)

\* the value given to _DEPTH_VALUES, which the package sets outside type.go
MaxDepth == 3
\* the number of fields of the destination records
NumFields == 2

-----------------------------------------------------------------------------
(* Strings *)

Slice(s, lo, hi) == SubSeq(s, lo + 1, hi)
SliceFrom(s, lo) == SubSeq(s, lo + 1, Len(s))

Min(S) == CHOOSE m \in S : \A n \in S : m <= n

\* characters of the class [a-zA-Z0-9_.\-] that occur in the model's strings
NameChars == {"a", "b", "x", "w", "s", "t", "f", "z", "E", "T", "0", "1", "-"}

RECURSIVE NameRun(_, _)
\* the length of the longest run of name characters of s that starts at offset p
NameRun(s, p) ==
    IF p < Len(s) /\ s[p + 1] \in NameChars THEN 1 + NameRun(s, p + 1) ELSE 0

HasAt(s, p, lit) ==
    /\ p + Len(lit) <= Len(s)
    /\ Slice(s, p, p + Len(lit)) = lit

\* head ( name-chars+ ) tail, as a record of the two literal markers
varRegExp    == [head |-> <<"%", "(">>, tail |-> <<")", "s">>]
envVarRegExp == [head |-> <<"$", "{">>, tail |-> <<"}">>]

MatchesAt(regx, s, p) ==
    /\ HasAt(s, p, regx.head)
    /\ NameRun(s, p + Len(regx.head)) >= 1
    /\ HasAt(s, p + Len(regx.head) + NameRun(s, p + Len(regx.head)), regx.tail)

\* regexp.FindStringSubmatchIndex: <<>> when nothing matches, otherwise the
\* offsets <<start, end, group1 start, group1 end>> of the leftmost match
FindStringSubmatchIndex(regx, s) ==
    LET ps == {p \in 0..Len(s) : MatchesAt(regx, s, p)}
    IN  IF ps = {} THEN <<>>
        ELSE LET p == Min(ps)
                 g == p + Len(regx.head)
                 n == NameRun(s, g)
             IN  <<p, g + n + Len(regx.tail), g, g + n>>

\* vr[k] of a Go slice
At(vr, k) == vr[k + 1]

-----------------------------------------------------------------------------
(* Errors *)

NoErr == [kind |-> "nil", arg |-> <<>>]
\* errors.New("not found")
ErrNotFound == [kind |-> "ErrNotFound", arg |-> <<>>]
\* errors.New("unsupported type")
ErrUnsupportedType == [kind |-> "ErrUnsupportedType", arg |-> <<>>]
\* the error RawStringDefault builds from the missing option's name
OptionError(opt) == [kind |-> "OptionError", arg |-> opt]
\* errors.New(fmt.Sprintf("Option not found: %s", varname))
OptionNotFound(varname) == [kind |-> "Option not found", arg |-> varname]
\* fmt.Errorf("Possible cycle while unfolding variables: max depth of %d reached", ...)
PossibleCycle(depth) == [kind |-> "Possible cycle", arg |-> <<depth>>]

-----------------------------------------------------------------------------
(* The store *)

_DEPTH_VALUES == MaxDepth

DEFAULT_SECTION == <<"D">>
web == <<"w">>

HasSection(d, sec) == sec \in DOMAIN d
HasOption(d, sec, opt) == HasSection(d, sec) /\ opt \in DOMAIN d[sec]

\* c.data[sec][opt].v: the zero tValue, whose v is "", when either key is absent
DataV(d, sec, opt) == IF HasOption(d, sec, opt) THEN d[sec][opt] ELSE <<>>

RawStringDefault(d, opt) ==
    IF HasOption(d, DEFAULT_SECTION, opt)
    THEN [value |-> d[DEFAULT_SECTION][opt], err |-> NoErr]
    ELSE [value |-> <<>>, err |-> OptionError(opt)]

RawString(d, sec, opt) ==
    IF HasSection(d, sec) /\ HasOption(d, sec, opt)
    THEN [value |-> d[sec][opt], err |-> NoErr]
    ELSE RawStringDefault(d, opt)

\* a slip in the callback: the default section's value wins over the section's
withVarOption_DefaultFirst(d, sec, varName) ==
    IF HasOption(d, DEFAULT_SECTION, varName) THEN DataV(d, DEFAULT_SECTION, varName)
    ELSE DataV(d, sec, varName)

\* the callback String gives the variable pass
withVarOption(d, sec, varName) ==
    IF HasOption(d, sec, varName) THEN DataV(d, sec, varName)
    ELSE DataV(d, DEFAULT_SECTION, varName)

\* os.Getenv: "" for a variable that is not set
Getenv(env, name) == IF name \in DOMAIN env THEN env[name] ELSE <<>>

\* the callback of each of String's two computeVar calls
withVar(p, d, env, sec, varName) ==
    IF p = "var" THEN withVarOption(d, sec, varName) ELSE Getenv(env, varName)

PassRegExp(p) == IF p = "var" THEN varRegExp ELSE envVarRegExp
PassHeadsz(p) == 2
\* a slip in the call: the environment pass's tail size for both passes
PassTailsz_One(p) == 1
PassTailsz(p) == IF p = "var" THEN 2 ELSE 1

-----------------------------------------------------------------------------
(* computeVar *)

\* varname := (*computedVal)[vr[headsz]:vr[headsz+1]]
VarName(val, vr, headsz) == Slice(val, At(vr, headsz), At(vr, headsz + 1))

\* newVal := (*computedVal)[0:vr[headsz]-headsz] + varVal + (*computedVal)[vr[headsz+1]+tailsz:]
Splice(val, vr, headsz, tailsz, varVal) ==
    Slice(val, 0, At(vr, headsz) - headsz)
        \o varVal
        \o SliceFrom(val, At(vr, headsz + 1) + tailsz)

\* a slip in the test after the loop: i > _DEPTH_VALUES
DepthReached_Beyond(k) == k > _DEPTH_VALUES
\* the test after the loop: i == _DEPTH_VALUES
DepthReached(k) == k = _DEPTH_VALUES

\* one turn of computeVar's loop on val: what it finds and what it does
LoopBody(p, d, env, sec, val) ==
    LET vr == FindStringSubmatchIndex(PassRegExp(p), val)
    IN  IF Len(vr) = 0 THEN [do |-> "break", value |-> val, varname |-> <<>>]
        ELSE LET varname == VarName(val, vr, PassHeadsz(p))
                 varVal  == withVar(p, d, env, sec, varname)
             IN  IF varVal = <<>>
                 THEN [do |-> "return", value |-> varVal, varname |-> varname]
                 ELSE [do |-> "continue",
                       value |-> Splice(val, vr, PassHeadsz(p), PassTailsz(p), varVal),
                       varname |-> varname]

RECURSIVE computeVarFrom(_, _, _, _, _, _)
\* computeVar from the k-th turn of its loop on: the value and error returned
computeVarFrom(p, d, env, sec, val, k) ==
    IF k < _DEPTH_VALUES
    THEN LET b == LoopBody(p, d, env, sec, val)
         IN  CASE b.do = "break"    -> [value |-> val, err |-> NoErr]
               [] b.do = "return"   -> [value |-> b.value, err |-> OptionNotFound(b.varname)]
               [] b.do = "continue" -> computeVarFrom(p, d, env, sec, b.value, k + 1)
    ELSE IF DepthReached(k)
         THEN [value |-> <<>>, err |-> PossibleCycle(_DEPTH_VALUES)]
         ELSE [value |-> val, err |-> NoErr]

computeVar(p, d, env, sec, beforeValue) == computeVarFrom(p, d, env, sec, beforeValue, 0)

\* String once the variable pass returned v: the return on its error, or the
\* environment pass
StringEnv(d, env, sec, v) ==
    IF v.err # NoErr THEN v ELSE computeVar("env", d, env, sec, v.value)

\* String once RawString returned raw: the return on its error, or the passes
StringVar(d, env, sec, raw) ==
    IF raw.err # NoErr THEN [value |-> <<>>, err |-> raw.err]
    ELSE StringEnv(d, env, sec, computeVar("var", d, env, sec, raw.value))

\* Config.String as a function of the store and the environment
StringOf(d, env, sec, opt) == StringVar(d, env, sec, RawString(d, sec, opt))

-----------------------------------------------------------------------------
(* Inputs of String *)

OptA == <<"a">>
OptB == <<"b">>
OptX == <<"x">>
EnvE == <<"E">>

Ref(n)    == <<"%", "(">> \o n \o <<")", "s">>
EnvRef(n) == <<"$", "{">> \o n \o <<"}">>

\* the raw values the stores of the model hold
StrVals ==
    { <<>>, <<"1">>,
      Ref(OptA), Ref(OptB), Ref(OptX),
      <<"0">> \o Ref(OptB) \o <<",">> \o Ref(OptX),
      Ref(OptX) \o Ref(OptA),
      EnvRef(EnvE) }

\* partial functions from the options os to the values vs
Partial(os, vs) == UNION {[s -> vs] : s \in SUBSET os}

\* the default section always exists; section w holds options a and b, the
\* default section b and x
Stores ==
    { [s \in {DEFAULT_SECTION, web} |-> IF s = web THEN w ELSE dflt] :
        w \in Partial({OptA, OptB}, StrVals), dflt \in Partial({OptB, OptX}, StrVals) }

Environs == Partial({EnvE}, {<<"1">>, EnvRef(EnvE), Ref(OptX)})

\* sections a caller may name: the default one, w, and one the store lacks
SectionArgs == {DEFAULT_SECTION, web, <<"z">>}
OptionArgs == {OptA, OptB, OptX}

-----------------------------------------------------------------------------
(* String, one step of its code at a time *)

InitString ==
    /\ data \in Stores
    /\ environ \in Environs
    /\ section \in SectionArgs
    /\ option \in OptionArgs
    /\ pc = "String"
    /\ pass = "var"
    /\ value = <<>>
    /\ i = 0
    /\ err = NoErr
    /\ getenvs = <<>>
    /\ dest = <<>>
    /\ st = <<>>
    /\ fields = <<>>

\* what os.Getenv has been called with after the callback of pass p ran on name
Called(p, name) == IF p = "env" THEN Append(getenvs, name) ELSE getenvs

\* a slip in String: the variable pass's error is not tested
StringResume_NoErrTest(val, e) ==
    IF pass = "var"
    THEN /\ pc' = "computeVar"
         /\ pass' = "env"
         /\ i' = 0
         /\ value' = val
         /\ err' = NoErr
    ELSE /\ pc' = "done"
         /\ value' = val
         /\ err' = e
         /\ UNCHANGED <<pass, i>>

\* String after a computeVar call returned (val, e): value = *computedVal, then
\* the early return or the next call
StringResume(val, e) ==
    IF pass = "var" /\ e = NoErr
    THEN /\ pc' = "computeVar"
         /\ pass' = "env"
         /\ i' = 0
         /\ value' = val
         /\ err' = NoErr
    ELSE /\ pc' = "done"
         /\ value' = val
         /\ err' = e
         /\ UNCHANGED <<pass, i>>

\* value, err = c.RawString(section, option) and the return on its error
StringRawString ==
    /\ pc = "String"
    /\ LET raw == RawString(data, section, option)
       IN  IF raw.err # NoErr
           THEN /\ pc' = "done"
                /\ value' = <<>>
                /\ err' = raw.err
           ELSE /\ pc' = "computeVar"
                /\ value' = raw.value
                /\ err' = NoErr
    /\ UNCHANGED <<data, environ, section, option, pass, i, getenvs, pvars>>

\* a turn of the loop that finds no match: break, and return computedVal
computeVarBreak ==
    /\ pc = "computeVar"
    /\ i < _DEPTH_VALUES
    /\ LET b == LoopBody(pass, data, environ, section, value)
       IN  /\ b.do = "break"
           /\ IF DepthReached(i)
              THEN StringResume(<<>>, PossibleCycle(_DEPTH_VALUES))
              ELSE StringResume(value, NoErr)
    /\ UNCHANGED <<data, environ, section, option, getenvs, pvars>>

\* a turn of the loop whose callback yields "": return the "Option not found" error
computeVarNotFound ==
    /\ pc = "computeVar"
    /\ i < _DEPTH_VALUES
    /\ LET b == LoopBody(pass, data, environ, section, value)
       IN  /\ b.do = "return"
           /\ getenvs' = Called(pass, b.varname)
           /\ StringResume(b.value, OptionNotFound(b.varname))
    /\ UNCHANGED <<data, environ, section, option, pvars>>

\* a turn of the loop that substitutes the leftmost reference
computeVarSubstitute ==
    /\ pc = "computeVar"
    /\ i < _DEPTH_VALUES
    /\ LET b == LoopBody(pass, data, environ, section, value)
       IN  /\ b.do = "continue"
           /\ getenvs' = Called(pass, b.varname)
           /\ value' = b.value
           /\ i' = i + 1
    /\ UNCHANGED <<data, environ, section, option, pc, pass, err, pvars>>

\* the loop ran out of turns: the test after it
computeVarLoopEnd ==
    /\ pc = "computeVar"
    /\ ~(i < _DEPTH_VALUES)
    /\ IF DepthReached(i)
       THEN StringResume(<<>>, PossibleCycle(_DEPTH_VALUES))
       ELSE StringResume(value, NoErr)
    /\ UNCHANGED <<data, environ, section, option, getenvs, pvars>>

NextString ==
    \/ StringRawString
    \/ computeVarBreak
    \/ computeVarNotFound
    \/ computeVarSubstitute
    \/ computeVarLoopEnd

SpecString == InitString /\ [][NextString]_vars

-----------------------------------------------------------------------------
(* Properties of String and computeVar *)

\* the value option name has for the variable pass of a String call on section sec
Looked(name) == withVarOption(data, section, name)
Present(sec, name) == HasOption(data, sec, name)

NoMatch(regx, val) == FindStringSubmatchIndex(regx, val) = <<>>
\* the name of the leftmost reference of val
Leftmost(regx, val) ==
    LET vr == FindStringSubmatchIndex(regx, val) IN Slice(val, vr[3], vr[4])
\* val with its leftmost reference, whose name is n, replaced by v
Replaced(regx, val, n, v) ==
    LET k == FindStringSubmatchIndex(regx, val)[1]
    IN  Slice(val, 0, k) \o v \o SliceFrom(val, k + Len(regx.head) + Len(n) + Len(regx.tail))

\* a turn of the variable pass's loop is about to run on a value with a reference
VarTurn == pc = "computeVar" /\ pass = "var" /\ i < _DEPTH_VALUES /\ ~NoMatch(varRegExp, value)

\* C2 as stated: every turn of the variable pass replaces the leftmost reference
\* %(name)s by the current section's value of name if the option is present
\* there, otherwise by the default section's; String fails with "Option not
\* found: name" if name is present in neither.
C2_AsStated ==
    [][ VarTurn =>
          LET n == Leftmost(varRegExp, value)
          IN  IF Present(section, n)
              THEN value' = Replaced(varRegExp, value, n, data[section][n]) /\ err' = NoErr
              ELSE IF Present(DEFAULT_SECTION, n)
              THEN value' = Replaced(varRegExp, value, n, data[DEFAULT_SECTION][n]) /\ err' = NoErr
              ELSE pc' = "done" /\ err' = OptionNotFound(n) ]_vars

\* C2 amended: every turn of the variable pass replaces the leftmost reference
\* %(name)s by the current section's value of name if the option is present
\* there, otherwise by the default section's; if that value is the empty string
\* (name is in neither section, or the option chosen holds "") String fails
\* with "Option not found: name" and returns "".
C2_Amended ==
    [][ VarTurn =>
          LET n == Leftmost(varRegExp, value)
              v == IF Present(section, n) THEN data[section][n]
                   ELSE IF Present(DEFAULT_SECTION, n) THEN data[DEFAULT_SECTION][n]
                   ELSE <<>>
          IN  IF v # <<>>
              THEN /\ value' = Replaced(varRegExp, value, n, v)
                   /\ err' = NoErr
                   /\ pc' = "computeVar"
              ELSE /\ pc' = "done"
                   /\ err' = OptionNotFound(n)
                   /\ value' = <<>> ]_vars

\* a String call that succeeded after substituting a reference whose name only
\* the default section holds
C2_Witness ==
    /\ pc = "done"
    /\ err = NoErr
    /\ section = web
    /\ Present(web, option)
    /\ Looked(option) = <<"0">> \o Ref(OptB) \o <<",">> \o Ref(OptX)
    /\ Present(web, OptB)
    /\ ~Present(web, OptX)
    /\ Looked(OptB) = <<"1">>
    /\ value = <<"0", "1", ",", "1">>

\* val holds a reference %(n)s
RefsName(val, n) == \E p \in 0..Len(val) : HasAt(val, p, Ref(n))

Exists(name) == Present(section, name) \/ Present(DEFAULT_SECTION, name)

\* the option String is called on references itself, or references an option
\* that references it
SelfRef ==
    /\ Exists(option)
    /\ \/ RefsName(Looked(option), option)
       \/ \E m \in OptionArgs \ {option} :
            RefsName(Looked(option), m) /\ RefsName(Looked(m), option)

\* C3 as stated: String on a self- or mutually-referential option ends with the
\* "possible cycle" error.
C3_AsStated == (SelfRef /\ pc = "done") => err = PossibleCycle(_DEPTH_VALUES)

\* C3 amended: String on a self- or mutually-referential option makes at most
\* _DEPTH_VALUES substitutions, never reaches the environment pass, and ends
\* with "" and an error: the "possible cycle" error after exactly
\* _DEPTH_VALUES substitutions, or "Option not found: name" when a reference
\* whose looked-up value is empty is met before that; when every option has a
\* non-empty value the error is the "possible cycle" one.
C3_Amended ==
    SelfRef =>
      /\ i <= _DEPTH_VALUES
      /\ pass = "var"
      /\ pc = "done" =>
           /\ value = <<>>
           /\ \/ err = PossibleCycle(_DEPTH_VALUES) /\ i = _DEPTH_VALUES
              \/ \E n \in OptionArgs : err = OptionNotFound(n) /\ Looked(n) = <<>>
           /\ (\A n \in OptionArgs : Looked(n) # <<>>) => err = PossibleCycle(_DEPTH_VALUES)

\* String ended with the cycle error on an option that references another one
\* that references it back
C3_Witness ==
    /\ SelfRef
    /\ ~RefsName(Looked(option), option)
    /\ pc = "done"
    /\ err = PossibleCycle(_DEPTH_VALUES)

IsLiteral(val) == NoMatch(varRegExp, val) /\ NoMatch(envVarRegExp, val)

RECURSIVE Chain(_, _)
\* option name heads a chain of n references: its value is a reference to an
\* option that heads a chain of n - 1, and a chain of 0 is a literal
Chain(name, n) ==
    /\ Exists(name)
    /\ IF n = 0 THEN IsLiteral(Looked(name))
       ELSE \E m \in OptionArgs : Looked(name) = Ref(m) /\ Chain(m, n - 1)

RECURSIVE ChainEnd(_, _)
\* the option that holds the literal of the chain of n references name heads
ChainEnd(name, n) ==
    IF n = 0 THEN name
    ELSE ChainEnd(CHOOSE m \in OptionArgs : Looked(name) = Ref(m), n - 1)

ChainLengths == 0..(_DEPTH_VALUES - 1)

\* C4 as stated: String on the head of a chain of N < _DEPTH_VALUES references
\* returns the chain's literal and no error.
C4_AsStated ==
    \A n \in ChainLengths :
        (pc = "done" /\ Chain(option, n)) =>
            err = NoErr /\ value = Looked(ChainEnd(option, n))

\* C4 amended: String on the head of a chain of N < _DEPTH_VALUES references
\* returns the chain's literal and no error, provided the literal is not the
\* empty string or N = 0; with N >= 1 and an empty literal it fails with
\* "Option not found" naming the option that holds the empty literal.
C4_Amended ==
    \A n \in ChainLengths :
        (pc = "done" /\ Chain(option, n)) =>
            LET last == ChainEnd(option, n)
            IN  IF n >= 1 /\ Looked(last) = <<>>
                THEN err = OptionNotFound(last) /\ value = <<>>
                ELSE err = NoErr /\ value = Looked(last)

\* String returned the literal of a chain of two references
C4_Witness ==
    /\ pc = "done"
    /\ Chain(option, 2)
    /\ err = NoErr
    /\ value = <<"1">>

\* the value the variable pass of this call returns
VarResult == computeVar("var", data, environ, section, RawString(data, section, option).value)

C9_AsStated ==
    [][ (pc = "computeVar" /\ err' = PossibleCycle(_DEPTH_VALUES))
            => ~NoMatch(PassRegExp(pass), value) ]_vars

-----------------------------------------------------------------------------
(* Conversions *)

RECURSIVE Split(_, _)
\* strings.Split(s, sep) for a one-character sep
Split(s, sep) ==
    LET ks == {k \in 1..Len(s) : s[k] = sep}
    IN  IF ks = {} THEN <<s>>
        ELSE <<SubSeq(s, 1, Min(ks) - 1)>> \o Split(SubSeq(s, Min(ks) + 1, Len(s)), sep)

RECURSIVE TrimSpace(_)
TrimSpace(s) ==
    IF s = <<>> THEN s
    ELSE IF s[1] = " " THEN TrimSpace(Tail(s))
    ELSE IF s[Len(s)] = " " THEN TrimSpace(SubSeq(s, 1, Len(s) - 1))
    ELSE s

LowerOf(c) == IF c = "T" THEN "t" ELSE IF c = "E" THEN "e" ELSE c
\* strings.ToLower on the characters of the model
ToLower(s) == [k \in 1..Len(s) |-> LowerOf(s[k])]

Digits == <<"0", "1", "2", "3", "4", "5", "6", "7", "8", "9">>
DigitVal(c) == (CHOOSE k \in 1..10 : Digits[k] = c) - 1
IsDigits(s) == Len(s) >= 1 /\ \A k \in 1..Len(s) : \E d \in 1..10 : Digits[d] = s[k]

RECURSIVE Num(_)
Num(s) == IF s = <<>> THEN 0 ELSE 10 * Num(SubSeq(s, 1, Len(s) - 1)) + DigitVal(s[Len(s)])

\* *strconv.NumError of a failed parse
NumError(fn, s) == [kind |-> fn, arg |-> s]

\* strconv.Atoi: an optional sign and decimal digits
Atoi(s) ==
    LET signed == s # <<>> /\ s[1] \in {"+", "-"}
        body   == IF signed THEN Tail(s) ELSE s
    IN  IF IsDigits(body)
        THEN [value |-> IF signed /\ s[1] = "-" THEN 0 - Num(body) ELSE Num(body), err |-> NoErr]
        ELSE [value |-> 0, err |-> NumError("strconv.Atoi", s)]

\* strconv.ParseFloat on the strings of the model, whose only numerals are
\* signed decimal integers
ParseFloat(s) ==
    [value |-> Atoi(s).value,
     err |-> IF IsDigits(IF s # <<>> /\ s[1] \in {"+", "-"} THEN Tail(s) ELSE s)
             THEN NoErr ELSE NumError("strconv.ParseFloat", s)]

\* uint64(n) of an int n: the pair <<c, n>> stands for c * 2^64 + n
Uint64(n) == IF n < 0 THEN <<1, n>> ELSE <<0, n>>

\* the table of recognized boolean tokens
boolString ==
    [t \in { <<"0">>, <<"1">>, <<"f">>, <<"t">>, <<"n">>, <<"y">>, <<"n", "o">>,
             <<"o", "n">>, <<"o", "f", "f">>, <<"y", "e", "s">>,
             <<"t", "r", "u", "e">>, <<"f", "a", "l", "s", "e">> } |->
        t \in { <<"1">>, <<"t">>, <<"y">>, <<"o", "n">>, <<"y", "e", "s">>,
                <<"t", "r", "u", "e">> }]

CouldNotParseBool(sv) == [kind |-> "could not parse bool value: ", arg |-> sv]

\* Int once String returned sv
IntOf(sv) == IF sv.err = NoErr THEN Atoi(sv.value) ELSE [value |-> 0, err |-> sv.err]

\* Config.Int
ConfigInt(d, env, sec, opt) == IntOf(StringOf(d, env, sec, opt))

\* Bool once String returned sv
BoolOf(sv) ==
    IF sv.err # NoErr THEN [value |-> FALSE, err |-> sv.err]
    ELSE IF ToLower(sv.value) \notin DOMAIN boolString
    THEN [value |-> FALSE, err |-> CouldNotParseBool(sv.value)]
    ELSE [value |-> boolString[ToLower(sv.value)], err |-> NoErr]

\* Config.Bool
ConfigBool(d, env, sec, opt) == BoolOf(StringOf(d, env, sec, opt))

-----------------------------------------------------------------------------
(* Go values as reflect sees them *)

IntKinds  == {"int", "int8", "int16", "int32", "int64"}
UintKinds == {"uint", "uint8", "uint16", "uint32", "uint64", "uintptr"}

\* a value of Go type t
Val(t, v) == [t |-> t, v |-> v]
\* what a field holds that ParseConf has not assigned
Prior == Val("prior", <<>>)

GoValue(kind, isNil, elem, type) == [kind |-> kind, isNil |-> isNil, elem |-> elem, type |-> type]
\* reflect.ValueOf(nil)
Invalid == GoValue("Invalid", FALSE, <<>>, <<>>)
StructOf(rec) == GoValue("Struct", FALSE, <<>>, rec)
IntValue == GoValue("Int", FALSE, <<>>, <<>>)
PtrTo(x) == GoValue("Ptr", FALSE, x, <<>>)
NilPtr == GoValue("Ptr", TRUE, <<>>, <<>>)
InterfaceOf(x) == GoValue("Interface", FALSE, x, <<>>)
\* reflect.ValueOf(e) for e a reflect.Value: a value of the struct type
\* reflect.Value, whose three fields (typ, ptr, flag) have no tag
ValueOfReflectValue ==
    GoValue("Struct", FALSE, <<>>,
            [k \in 1..3 |-> [Anonymous |-> k = 3, tag |-> <<>>,
                              kind |-> IF k = 3 THEN "uintptr" ELSE "ptr", elem |-> ""]])

-----------------------------------------------------------------------------
(* ParseConf *)

\* the section and option of a field's tag; panics says the index expression
\* tagParts[1] is out of range
fieldName(f) ==
    LET none == [sec |-> <<>>, opt |-> <<>>, panics |-> FALSE]
    IN  IF f.Anonymous THEN none
        ELSE IF f.tag # <<>>
        THEN IF f.tag = <<"-">> THEN none
             ELSE LET tagParts == Split(f.tag, "-")
                  IN  IF Len(tagParts) >= 1
                      THEN IF Len(tagParts) < 2
                           THEN [sec |-> <<>>, opt |-> <<>>, panics |-> TRUE]
                           ELSE [sec |-> TrimSpace(tagParts[1]),
                                 opt |-> TrimSpace(tagParts[2]),
                                 panics |-> FALSE]
                      ELSE none
        ELSE none

\* what loading a field does: assign val, return err, or panic
Set(val)    == [out |-> "set", val |-> val, err |-> NoErr]
Return(e)   == [out |-> "err", val |-> Prior, err |-> e]
Panic       == [out |-> "panic", val |-> Prior, err |-> NoErr]

\* the end of loadFieldInt, loadFieldBool and loadFieldString on the accessor's
\* result r: return its error, or set the field to a value of type t
SetOrReturn(t, r) == IF r.err # NoErr THEN Return(r.err) ELSE Set(Val(t, r.value))

\* the end of loadFieldUint: f.SetUint(uint64(i))
SetUintOrReturn(t, r) == IF r.err # NoErr THEN Return(r.err) ELSE Set(Val(t, Uint64(r.value)))

loadFieldInt(f, d, env, sec, opt) == SetOrReturn(f.kind, ConfigInt(d, env, sec, opt))

loadFieldUint(f, d, env, sec, opt) == SetUintOrReturn(f.kind, ConfigInt(d, env, sec, opt))

loadFieldBool(f, d, env, sec, opt) == SetOrReturn("bool", ConfigBool(d, env, sec, opt))

loadFieldString(f, d, env, sec, opt) == SetOrReturn("string", StringOf(d, env, sec, opt))

\* reflect.ValueOf(x) of a parse result r whose value x has Go type t
ValueOfParsed(t, r) == [val |-> Val(t, r.value), err |-> r.err]
\* reflect.ValueOf(uint64(i)) of Atoi's result r
ValueOfUint64(r) == [val |-> Val("uint64", Uint64(r.value)), err |-> r.err]

\* the reflect.Value transvalue makes of v for an element of kind `kind`
transvalue(kind, v) ==
    CASE kind = "string" -> [val |-> Val("string", v), err |-> NoErr]
      [] kind = "bool" ->
           IF ToLower(v) \notin DOMAIN boolString
           THEN [val |-> Val("bool", FALSE), err |-> CouldNotParseBool(v)]
           ELSE [val |-> Val("bool", boolString[ToLower(v)]), err |-> NoErr]
      [] kind \in IntKinds -> ValueOfParsed("int", Atoi(v))
      [] kind \in UintKinds -> ValueOfUint64(Atoi(v))
      [] kind = "float32" -> ValueOfParsed("float32", ParseFloat(v))
      [] kind = "float64" -> ValueOfParsed("float64", ParseFloat(v))
      [] OTHER -> [val |-> Val("nil", <<>>), err |-> ErrUnsupportedType]

\* reflect.Value.Set on an element of type elem panics unless the value's type is elem
Assignable(val, elem) == val.t = elem

\* loadFieldSlice's loop on the transvalue results tv of the pieces: the first
\* turn that returns an error or panics in Set ends it, otherwise f.Set(newv)
SliceLoop(elem, tv) ==
    LET bad == {k \in 1..Len(tv) : tv[k].err # NoErr \/ ~Assignable(tv[k].val, elem)}
    IN  IF bad = {} THEN Set(Val("slice", [k \in 1..Len(tv) |-> tv[k].val]))
        ELSE IF tv[Min(bad)].err # NoErr THEN Return(tv[Min(bad)].err)
        ELSE Panic

\* loadFieldSlice on the pieces ss := strings.Split(v, ",")
SliceOfPieces(elem, ss) == SliceLoop(elem, [k \in 1..Len(ss) |-> transvalue(elem, ss[k])])

\* loadFieldSlice once String returned r
SliceOf(elem, r) ==
    IF r.err # NoErr THEN Return(r.err) ELSE SliceOfPieces(elem, Split(r.value, ","))

loadFieldSlice(f, d, env, sec, opt) == SliceOf(f.elem, StringOf(d, env, sec, opt))

UnsupportedKind(sec, opt, kind) == [kind |-> "unsupported type:", arg |-> <<sec, opt, kind>>]

loadSecOpt(f, d, env, sec, opt) ==
    CASE f.kind \in IntKinds  -> loadFieldInt(f, d, env, sec, opt)
      [] f.kind \in UintKinds -> loadFieldUint(f, d, env, sec, opt)
      [] f.kind = "string"    -> loadFieldString(f, d, env, sec, opt)
      [] f.kind = "bool"      -> loadFieldBool(f, d, env, sec, opt)
      [] f.kind = "slice"     -> loadFieldSlice(f, d, env, sec, opt)
      [] OTHER                -> Return(UnsupportedKind(sec, opt, f.kind))

\* a slip in the test: err != nil && err == ErrNotFound
Aborts_OnNotFound(e) == e # NoErr /\ e = ErrNotFound
\* loadStruct's test of loadSecOpt's error: err != nil && err != ErrNotFound
Aborts(e) == e # NoErr /\ e # ErrNotFound

\* a turn of loadStruct's loop once loadSecOpt came back with r
AfterLoad(r) ==
    IF r.out = "panic"
    THEN [do |-> "panic", assign |-> FALSE, val |-> Prior, err |-> NoErr]
    ELSE IF Aborts(r.err)
    THEN [do |-> "return", assign |-> FALSE, val |-> Prior, err |-> r.err]
    ELSE [do |-> "load", assign |-> r.out = "set", val |-> r.val, err |-> r.err]

\* a turn of loadStruct's loop once fieldName returned fn
AfterFieldName(f, d, env, fn) ==
    IF fn.panics THEN [do |-> "panic", assign |-> FALSE, val |-> Prior, err |-> NoErr]
    ELSE IF fn.sec = <<>> \/ fn.opt = <<>>
    THEN [do |-> "skip", assign |-> FALSE, val |-> Prior, err |-> NoErr]
    ELSE AfterLoad(loadSecOpt(f, d, env, fn.sec, fn.opt))

\* one turn of loadStruct's loop on field f
FieldStep(f, d, env) == AfterFieldName(f, d, env, fieldName(f))

\* the branch ParseConf takes on reflect.ValueOf(st) = v
ParseConfCase(v) ==
    IF v.kind # "Ptr" /\ v.kind # "Interface" THEN "unsupported"
    ELSE IF v.isNil THEN "unsupported"
    ELSE CASE v.elem.kind = "Struct" -> "loadStruct"
           [] v.elem.kind \in {"Interface", "Ptr"} -> "ParseConf"
           [] OTHER -> "unsupported"

-----------------------------------------------------------------------------
(* Inputs of ParseConf *)

Field(tag, kind, elem) == [Anonymous |-> FALSE, tag |-> tag, kind |-> kind, elem |-> elem]

TagWA == <<"w", "-", "a">>
TagWX == <<"w", "-", "x">>

\* the fields the destination records are made of
FieldPool ==
    { Field(TagWA, "int", ""), Field(TagWA, "uint", ""), Field(TagWA, "string", ""),
      Field(TagWA, "bool", ""), Field(TagWA, "float64", ""),
      Field(TagWA, "slice", "string"), Field(TagWA, "slice", "int"),
      Field(TagWA, "slice", "bool"), Field(TagWA, "slice", "uint"),
      Field(TagWA, "slice", "uint64"), Field(TagWA, "slice", "float64"),
      Field(TagWA, "slice", "struct"),
      Field(TagWX, "string", ""), Field(TagWX, "int", ""),
      Field(<<>>, "string", ""), Field(<<"-">>, "string", ""),
      Field(<<"w">>, "string", ""), Field(<<"w", "-">>, "string", ""),
      Field(<<"-", "a">>, "string", ""),
      Field(<<" ", "w", " ", "-", "a", " ">>, "string", ""),
      [Anonymous |-> TRUE, tag |-> TagWA, kind |-> "string", elem |-> ""] }

Records == [1..NumFields -> FieldPool]

\* the raw values option a of section w holds
ParseVals ==
    { <<>>, <<"1">>, <<"-", "1">>, <<"1", ",", "0">>, <<"T">>, Ref(OptX), Ref(OptA) }

ParseStores ==
    { [s \in {DEFAULT_SECTION, web} |-> IF s = web THEN w ELSE dflt] :
        w \in Partial({OptA}, ParseVals), dflt \in Partial({OptA, OptX}, {<<"1">>}) }

Shapes ==
    {"nil", "struct", "nil pointer", "pointer to struct", "pointer to int",
     "pointer to pointer to struct", "pointer to interface holding pointer to struct"}

\* the Go value of a destination of the given shape around record type rec
DestValue(shape, rec) ==
    CASE shape = "nil" -> Invalid
      [] shape = "struct" -> StructOf(rec)
      [] shape = "nil pointer" -> NilPtr
      [] shape = "pointer to struct" -> PtrTo(StructOf(rec))
      [] shape = "pointer to int" -> PtrTo(IntValue)
      [] shape = "pointer to pointer to struct" -> PtrTo(PtrTo(StructOf(rec)))
      [] shape = "pointer to interface holding pointer to struct" ->
           PtrTo(InterfaceOf(PtrTo(StructOf(rec))))

-----------------------------------------------------------------------------
(* ParseConf, one step of its code at a time *)

InitParse ==
    /\ data \in ParseStores
    /\ environ = << >>
    /\ dest \in [shape : Shapes, rec : Records]
    /\ st = DestValue(dest.shape, dest.rec)
    /\ fields = [k \in 1..NumFields |-> Prior]
    /\ pc = "ParseConf"
    /\ i = 0
    /\ err = NoErr
    /\ section = <<>>
    /\ option = <<>>
    /\ pass = "var"
    /\ value = <<>>
    /\ getenvs = <<>>

\* return ErrUnsupportedType
ParseConfUnsupported ==
    /\ pc = "ParseConf"
    /\ ParseConfCase(st) = "unsupported"
    /\ pc' = "done"
    /\ err' = ErrUnsupportedType
    /\ UNCHANGED <<data, environ, i, dest, st, fields, strvars>>

\* return c.loadStruct(e): enter loadStruct with v = e
ParseConfStruct ==
    /\ pc = "ParseConf"
    /\ ParseConfCase(st) = "loadStruct"
    /\ pc' = "loadStruct"
    /\ st' = st.elem
    /\ i' = 0
    /\ UNCHANGED <<data, environ, err, dest, fields, strvars>>

\* return c.ParseConf(e): the call's argument is the reflect.Value e itself
ParseConfIndirect ==
    /\ pc = "ParseConf"
    /\ ParseConfCase(st) = "ParseConf"
    /\ pc' = "ParseConf"
    /\ st' = ValueOfReflectValue
    /\ UNCHANGED <<data, environ, i, err, dest, fields, strvars>>

InLoop == pc = "loadStruct" /\ i < Len(st.type)
ThisStep == FieldStep(st.type[i + 1], data, environ)

\* a field without section or option: continue
Skip(s) ==
    /\ s.do = "skip"
    /\ i' = i + 1
    /\ UNCHANGED <<pc, err, fields>>

\* a field loadSecOpt assigned, or whose error the loop passes over
Load(s) ==
    /\ s.do = "load"
    /\ fields' = IF s.assign THEN [fields EXCEPT ![i + 1] = s.val] ELSE fields
    /\ i' = i + 1
    /\ UNCHANGED <<pc, err>>

\* return err
Abort(s) ==
    /\ s.do = "return"
    /\ pc' = "done"
    /\ err' = s.err
    /\ UNCHANGED <<i, fields>>

\* a run-time panic in fieldName or in reflect's Set
Panicking(s) ==
    /\ s.do = "panic"
    /\ pc' = "panicked"
    /\ UNCHANGED <<i, err, fields>>

loadStructSkip == InLoop /\ Skip(ThisStep) /\ UNCHANGED <<data, environ, dest, st, strvars>>

loadStructLoad == InLoop /\ Load(ThisStep) /\ UNCHANGED <<data, environ, dest, st, strvars>>

loadStructAbort == InLoop /\ Abort(ThisStep) /\ UNCHANGED <<data, environ, dest, st, strvars>>

loadStructPanic == InLoop /\ Panicking(ThisStep) /\ UNCHANGED <<data, environ, dest, st, strvars>>

\* the loop is over: return nil
loadStructReturn ==
    /\ pc = "loadStruct"
    /\ ~(i < Len(st.type))
    /\ pc' = "done"
    /\ err' = NoErr
    /\ UNCHANGED <<data, environ, i, dest, st, fields, strvars>>

NextParse ==
    \/ ParseConfUnsupported
    \/ ParseConfStruct
    \/ ParseConfIndirect
    \/ loadStructSkip
    \/ loadStructLoad
    \/ loadStructAbort
    \/ loadStructPanic
    \/ loadStructReturn

SpecParse == InitParse /\ [][NextParse]_vars

-----------------------------------------------------------------------------
(* Properties of ParseConf *)

Rec == dest.rec
FieldIndexes == 1..Len(Rec)
\* ParseConf was called on a pointer to the record
Populating == dest.shape = "pointer to struct"

FN(k) == fieldName(Rec[k])
\* field k has a section and an option
Bound(k) == ~FN(k).panics /\ FN(k).sec # <<>> /\ FN(k).opt # <<>>
\* what loadSecOpt does on field k
Loaded(k) == loadSecOpt(Rec[k], data, environ, FN(k).sec, FN(k).opt)

\* ParseConf ended at field k: it returned an error from it, or panicked in it
ReturnedAt(k) == pc = "done" /\ err # NoErr /\ i = k - 1
PanickedAt(k) == pc = "panicked" /\ i = k - 1
\* field k has had its turn of the loop
Reached(k) == \/ pc \in {"done", "panicked"} /\ i >= k - 1
              \/ pc = "loadStruct" /\ i >= k

\* the tag of field k names a section and an option that no section holds
Missing(k) ==
    /\ Bound(k)
    /\ ~HasOption(data, FN(k).sec, FN(k).opt)
    /\ ~HasOption(data, DEFAULT_SECTION, FN(k).opt)

\* field k is of a kind loadSecOpt loads
Supported(k) == Rec[k].kind \in IntKinds \cup UintKinds \cup {"string", "bool", "slice"}

\* C1 as stated: a field of a supported kind whose tag names an option that is neither in its
\* section nor in the default section keeps its zero value and ParseConf does
\* not return an error from it: it goes on to the later fields.
C1_AsStated ==
    Populating =>
        \A k \in FieldIndexes :
            (Missing(k) /\ Supported(k)) => fields[k] = Prior /\ ~ReturnedAt(k)

\* the shapes of destination that lead to the record
LeadsToRecord ==
    {"pointer to struct", "pointer to pointer to struct",
     "pointer to interface holding pointer to struct"}

\* C6 as stated: a pointer to a record, and a pointer or interface leading to
\* such a pointer, have loadStruct run on the record; any other destination
\* gets ErrUnsupportedType and no field is assigned.
C6_AsStated ==
    pc \in {"done", "panicked"} =>
        IF dest.shape \in LeadsToRecord
        THEN st = StructOf(Rec)
        ELSE err = ErrUnsupportedType /\ \A k \in FieldIndexes : fields[k] = Prior

\* the tag has the form section-option with neither part empty
WellFormed(tag) ==
    LET parts == Split(tag, "-")
    IN  Len(parts) >= 2 /\ TrimSpace(parts[1]) # <<>> /\ TrimSpace(parts[2]) # <<>>

Unrecognized(k) ==
    \/ Rec[k].Anonymous
    \/ Rec[k].tag = <<>>
    \/ Rec[k].tag = <<"-">>
    \/ ~WellFormed(Rec[k].tag)

\* C7 as stated: a field that is anonymous, tagged "-", without tag, or whose
\* tag is not of the form section-option is not assigned, and ParseConf neither
\* returns an error from it nor crashes in it.
C7_AsStated ==
    Populating =>
        \A k \in FieldIndexes :
            Unrecognized(k) => fields[k] = Prior /\ ~ReturnedAt(k) /\ ~PanickedAt(k)

\* the pieces of the string field k's option resolves to
Resolved(k) == StringOf(data, environ, FN(k).sec, FN(k).opt)
Pieces(k) == Split(Resolved(k).value, ",")
Commas(v) == Cardinality({j \in 1..Len(v) : v[j] = ","})

\* field k is a slice whose option resolves to a string all of whose pieces
\* convert to the element type
ConvertibleSlice(k) ==
    /\ Bound(k)
    /\ Rec[k].kind = "slice"
    /\ Resolved(k).err = NoErr
    /\ \A j \in 1..Len(Pieces(k)) : transvalue(Rec[k].elem, Pieces(k)[j]).err = NoErr

\* C8 as stated: a slice field whose option resolves to v is assigned a
\* sequence of (number of commas of v) + 1 elements, the j-th being the
\* conversion of the j-th comma-separated piece of v.
C8_AsStated ==
    Populating =>
        \A k \in FieldIndexes :
            (ConvertibleSlice(k) /\ Reached(k)) =>
                /\ fields[k].t = "slice"
                /\ Len(fields[k].v) = Commas(Resolved(k).value) + 1
                /\ \A j \in 1..Len(fields[k].v) :
                      fields[k].v[j].v = transvalue(Rec[k].elem, Pieces(k)[j]).val.v

\* the errors other than "not found" that loading a field can end with
OtherErrors ==
    {"Option not found", "Possible cycle", "strconv.Atoi", "strconv.ParseFloat",
     "could not parse bool value: ", "unsupported type:", "ErrUnsupportedType"}

\* what field k holds once the loop is past it
Expected(k) == IF Bound(k) /\ Loaded(k).out = "set" THEN Loaded(k).val ELSE Prior

\* C10: when loading the field at hand fails with an unresolved reference, a
\* cycle, a parse failure or an unsupported kind, ParseConf returns that very
\* error at this step; the step changes neither a field nor the store, the
\* field and those after it hold what they held before the call, and those
\* before it hold what loading them assigned.
C10_AbortKeepsRest ==
    [][ ( /\ Populating
          /\ pc = "loadStruct"
          /\ i < Len(Rec)
          /\ Bound(i + 1)
          /\ Loaded(i + 1).out = "err"
          /\ Loaded(i + 1).err.kind \in OtherErrors )
        => /\ pc' = "done"
           /\ err' = Loaded(i + 1).err
           /\ i' = i
           /\ fields' = fields
           /\ data' = data
           /\ \A k \in (i + 1)..Len(Rec) : fields[k] = Prior
           /\ \A k \in 1..i : fields[k] = Expected(k) ]_vars

\* ParseConf returned a parse error from the second field after assigning the first
C10_Witness ==
    /\ Populating
    /\ pc = "done"
    /\ i = 1
    /\ err.kind = "strconv.Atoi"
    /\ fields[1] # Prior
    /\ fields[2] = Prior

====
